---- MODULE Spec2Model ----
(***************************************************************************)
(* The event listener of the serverless executor (src/src/event_handler.rs) *)
(* as a state machine: the reconnecting supervisor (events_listener), the   *)
(* per-connection dispatch loop (handle_event_logs), the transaction sender *)
(* tasks (send_execution_output) and the per-job tasks they serve.          *)
(***************************************************************************)
EXTENDS Integers, Sequences, FiniteSets, Bags, TLC

\* ------------------------------------------------------------------ bounds
MaxBlock == 1       \* block numbers are 0..MaxBlock
MaxJobId == 2       \* job ids are 1..MaxJobId
MaxConn == 2        \* outcome channels made over a run
MaxSpawn == 2       \* per-job tasks spawned over a run

\* ------------------------------------------------------- program constants
NumSelectedExecutors == 3     \* --num-selected-executors, default value
ChannelCapacity == 100        \* channel::<JobResponse>(100)

\* ---------------------------------------------------------------- Option<T>
None == << >>
Some(x) == << x >>
IsSome(o) == o # None
Unwrap(o) == o[1]
UnwrapOr(o, d) == IF o = None THEN d ELSE o[1]

Blocks == 0 .. MaxBlock
JobIds == 1 .. MaxJobId
Conns == 1 .. MaxConn
OptBool == {None, Some(TRUE), Some(FALSE)}
OptBlock == {None} \cup {Some(b) : b \in Blocks}

\* ------------------------------------------------------------------- logs
\* A log of the registration or of the deregistration subscription: only the
\* removed marker and the block number are read.
ExecutorLogs == [removed : OptBool, block_number : OptBlock]

\* One element of the decoded selectedExecutors array: this node's address,
\* another address, or a token that is no address.
Tokens == {"self", "other", "bad"}
SelectedArrays ==
    { << >>, <<"self">>, <<"other">>, <<"bad">>, <<"other", "self">>,
      <<"bad", "other">> }

\* Where the decoding of a log's data stops: "ok", the ABI decode itself, or one
\* of the fields taken from the decoded tokens.
CreatedDecodes == {"ok", "abi", "codeHash", "codeInputs", "deadline", "selectedExecutors"}
RespondedDecodes == {"ok", "abi", "outputCount"}
OutputCounts == {NumSelectedExecutors - 1, NumSelectedExecutors, NumSelectedExecutors + 1}

JobLog(r, b, t, j, d, s, n) ==
    [removed |-> r, block_number |-> b, topic0 |-> t, job_id |-> j,
     decode |-> d, selected |-> s, output_count |-> n]
\* What a log carries besides its removed marker and its block number: a
\* JobCreated payload that decodes, with its selectedExecutors, or that fails
\* to decode somewhere; a JobResponded payload that decodes, with its
\* outputCount, or that fails to decode somewhere.
Payloads ==
    { [topic0 |-> "JobCreated", decode |-> "ok", selected |-> s, output_count |-> 0] :
         s \in SelectedArrays }
    \cup
    { [topic0 |-> "JobCreated", decode |-> d, selected |-> << >>, output_count |-> 0] :
         d \in CreatedDecodes \ {"ok"} }
    \cup
    { [topic0 |-> "JobResponded", decode |-> "ok", selected |-> << >>, output_count |-> n] :
         n \in OutputCounts }
    \cup
    { [topic0 |-> "JobResponded", decode |-> d, selected |-> << >>, output_count |-> 0] :
         d \in RespondedDecodes \ {"ok"} }
\* The payloads of the logs that come marked removed (or unmarked): the two
\* that change most when processed.
RetractedPayloads ==
    { [topic0 |-> "JobCreated", decode |-> "ok", selected |-> <<"self">>,
       output_count |-> 0],
      [topic0 |-> "JobResponded", decode |-> "ok", selected |-> << >>,
       output_count |-> NumSelectedExecutors] }
JobLogs ==
    { JobLog(r, b, p.topic0, j, p.decode, p.selected, p.output_count) :
         r \in {Some(FALSE)}, b \in OptBlock, j \in JobIds, p \in Payloads }
    \cup
    { JobLog(r, b, p.topic0, j, p.decode, p.selected, p.output_count) :
         r \in {None, Some(TRUE)}, b \in OptBlock, j \in JobIds,
         p \in RetractedPayloads }

\* --------------------------------------------------------------- messages
\* JobResponse: the two optional fields send_execution_output reads.
TimeoutMessage(j) == [job_output |-> None, timeout_response |-> Some(j)]
OutputMessage(j) == [job_output |-> Some(j), timeout_response |-> None]

\* A per-job task: the connection whose sender clone it holds, its kind and
\* its job id.
Task(c, k, j) == [conn |-> c, kind |-> k, job_id |-> j]
Tasks == {Task(c, k, j) : c \in Conns, k \in {"timeout", "job"}, j \in JobIds}

VARIABLES
    pc,                       \* where events_listener stands
    starting_block,           \* its argument
    events_listener_active,   \* AppState.events_listener_active
    enclave_registered,       \* AppState.enclave_registered
    last_block_seen,          \* AppState.last_block_seen
    job_requests_running,     \* AppState.job_requests_running
    jobs_from,                \* from_block of jobs_event_filter, while subscribed
    executors_from,           \* from_block of executors_event_filter, while subscribed
    jobs_ended,               \* jobs_stream has yielded None
    executors_ended,          \* executors_stream has yielded None
    conn,                     \* outcome channels made so far; the last is the current one
    channel,                  \* per channel: the messages queued
    sender,                   \* per channel: where send_execution_output stands
    tasks,                    \* bag of running handle_timeout / handle_job tasks
    spawned,                  \* per-job tasks spawned so far
    ever_inserted,            \* job ids inserted into job_requests_running so far
    settled,                  \* job ids of the set for which a full-quorum
                              \* JobResponded was processed
    last_step                 \* the last step of the listener and its outcome

vars == << pc, starting_block, events_listener_active, enclave_registered,
           last_block_seen, job_requests_running, jobs_from,
           executors_from, jobs_ended, executors_ended, conn, channel, sender,
           tasks, spawned, ever_inserted, settled, last_step >>

listener_vars == << pc, starting_block, events_listener_active, enclave_registered,
                    last_block_seen, job_requests_running, jobs_from,
                    executors_from, jobs_ended, executors_ended, conn,
                    ever_inserted, settled >>
sender_vars == << sender >>

Step(act, outcome) == [act |-> act, outcome |-> outcome]

TxnKinds == {"slash_on_execution_timeout", "submit_output"}
\* send_execution_output: where it stands, the transaction it has built and is
\* sending, and whether a send_txn of it has failed so far.
Sender(at, txn, job_id, failed) ==
    [at |-> at, txn |-> txn, job_id |-> job_id, failed |-> failed]

Init ==
    /\ pc = "stopped"
    /\ starting_block = 0
    /\ events_listener_active = FALSE
    /\ enclave_registered = FALSE
    /\ last_block_seen = 0
    /\ job_requests_running = {}
    /\ jobs_from = None
    /\ executors_from = None
    /\ jobs_ended = FALSE
    /\ executors_ended = FALSE
    /\ conn = 0
    /\ channel = [c \in Conns |-> << >>]
    /\ sender = [c \in Conns |-> Sender("unspawned", "none", 0, FALSE)]
    /\ tasks = EmptyBag
    /\ spawned = 0
    /\ ever_inserted = {}
    /\ settled = {}
    /\ last_step = Step("Init", "")

\* ------------------------------------------------------- events_listener
\* The caller sets events_listener_active, the guard against a second
\* listener, and starts events_listener with a starting block.
StartListener(sb) ==
    /\ pc = "stopped"
    /\ pc' = "connect"
    /\ starting_block' = sb
    /\ events_listener_active' = TRUE
    /\ last_step' = Step("StartListener", "")
    /\ UNCHANGED << enclave_registered, last_block_seen, job_requests_running,
                    jobs_from, executors_from, jobs_ended,
                    executors_ended, conn, channel, tasks, spawned, ever_inserted,
                    settled >>
    /\ UNCHANGED sender_vars

\* connect_with_reconnects failed: `continue`.
ConnectFails ==
    /\ pc = "connect"
    /\ last_step' = Step("Connect", "failed")
    /\ UNCHANGED listener_vars
    /\ UNCHANGED << channel, tasks, spawned >>
    /\ UNCHANGED sender_vars

\* A faulty variant: the registration gate runs on every connection
AfterConnectAlwaysGate(registered) == "register_subscribe"

\* After a successful connect: the registration gate runs only while the
\* enclave is not registered.
AfterConnect(registered) == IF ~registered THEN "register_subscribe" ELSE "jobs_subscribe"

ConnectSucceeds ==
    /\ pc = "connect"
    /\ pc' = AfterConnect(enclave_registered)
    /\ last_step' = Step("Connect", "ok")
    /\ UNCHANGED << starting_block, events_listener_active, enclave_registered,
                    last_block_seen, job_requests_running, jobs_from,
                    executors_from, jobs_ended, executors_ended, conn, channel,
                    tasks, spawned, ever_inserted, settled >>
    /\ UNCHANGED sender_vars

\* subscribe_logs(&register_executor_filter): the filter starts at starting_block.
RegisterSubscribe(ok) ==
    /\ pc = "register_subscribe"
    /\ pc' = IF ok THEN "register_stream" ELSE "connect"
    /\ last_step' = Step("RegisterSubscribe", IF ok THEN "ok" ELSE "failed")
    /\ UNCHANGED << starting_block, events_listener_active, enclave_registered,
                    last_block_seen, job_requests_running, jobs_from,
                    executors_from, jobs_ended, executors_ended, conn, channel,
                    tasks, spawned, ever_inserted, settled >>
    /\ UNCHANGED sender_vars

\* A log of the filter arrives only from the filter's first block on.
Delivered(event, from) ==
    IF event.block_number = None THEN TRUE
    ELSE Unwrap(event.block_number) >= Unwrap(from)

\* A faulty variant: the removed marker is not looked at
RemovedNotChecked(event) == FALSE

\* event.removed.unwrap_or(true)
Removed(event) == UnwrapOr(event.removed, TRUE)

\* A faulty variant: the gate stores its starting block, whatever the log says
RegisteredStartingBlock(event, sb) == sb

\* The block number the registration gate stores.
RegisteredBlock(event, sb) == UnwrapOr(event.block_number, sb)

\* register_executor_filter: .from_block(starting_block)
RegisterFilterFrom == Some(starting_block)

\* One log of register_stream: skipped when removed, else the enclave is
\* registered, the cursor is stored and the loop is left.
RegisterLog(event) ==
    /\ pc = "register_stream"
    /\ Delivered(event, RegisterFilterFrom)
    /\ IF Removed(event)
       THEN /\ last_step' = Step("RegisterLog", "removed")
            /\ UNCHANGED << pc, enclave_registered, last_block_seen >>
       ELSE /\ enclave_registered' = TRUE
            /\ last_block_seen' = RegisteredBlock(event, starting_block)
            /\ pc' = "jobs_subscribe"
            /\ last_step' = Step("RegisterLog", "registered")
    /\ UNCHANGED << starting_block, events_listener_active, job_requests_running,
                    jobs_from, executors_from, jobs_ended,
                    executors_ended, conn, channel, tasks, spawned, ever_inserted,
                    settled >>
    /\ UNCHANGED sender_vars

\* register_stream ended: still not registered, `continue`.
RegisterStreamEnds ==
    /\ pc = "register_stream"
    /\ pc' = IF ~enclave_registered THEN "connect" ELSE "jobs_subscribe"
    /\ last_step' = Step("RegisterStream", "ended")
    /\ UNCHANGED << starting_block, events_listener_active, enclave_registered,
                    last_block_seen, job_requests_running, jobs_from,
                    executors_from, jobs_ended, executors_ended, conn, channel,
                    tasks, spawned, ever_inserted, settled >>
    /\ UNCHANGED sender_vars

\* A faulty variant: the filters start at the block after the cursor
FromBlockAfter(cursor) == cursor + 1

\* .from_block(app_state.last_block_seen.load(Ordering::Relaxed))
FromBlock(cursor) == cursor

\* subscribe_logs(&jobs_event_filter): the filter starts at the cursor.
JobsSubscribe(ok) ==
    /\ pc = "jobs_subscribe"
    /\ jobs_from' = IF ok THEN Some(FromBlock(last_block_seen)) ELSE None
    /\ pc' = IF ok THEN "executors_subscribe" ELSE "connect"
    /\ last_step' = Step("JobsSubscribe", IF ok THEN "ok" ELSE "failed")
    /\ UNCHANGED << starting_block, events_listener_active, enclave_registered,
                    last_block_seen, job_requests_running, executors_from, jobs_ended, executors_ended, conn, channel,
                    tasks, spawned, ever_inserted, settled >>
    /\ UNCHANGED sender_vars

\* subscribe_logs(&executors_event_filter) failed: `continue`.
ExecutorsSubscribeFails ==
    /\ pc = "executors_subscribe"
    /\ jobs_from' = None
    /\ pc' = "connect"
    /\ last_step' = Step("ExecutorsSubscribe", "failed")
    /\ UNCHANGED << starting_block, events_listener_active, enclave_registered,
                    last_block_seen, job_requests_running, executors_from,
                    jobs_ended, executors_ended, conn, channel, tasks, spawned,
                    ever_inserted, settled >>
    /\ UNCHANGED sender_vars

\* subscribe_logs(&executors_event_filter) succeeded: a new channel is made, a
\* send_execution_output task is spawned on its receiver and handle_event_logs
\* is entered with its sender.
ExecutorsSubscribeSucceeds ==
    /\ pc = "executors_subscribe"
    /\ conn < MaxConn
    /\ executors_from' = Some(FromBlock(last_block_seen))
    /\ conn' = conn + 1
    /\ channel' = [channel EXCEPT ![conn + 1] = << >>]
    /\ sender' = [sender EXCEPT ![conn + 1] = Sender("recv", "none", 0, FALSE)]
    /\ jobs_ended' = FALSE
    /\ executors_ended' = FALSE
    /\ pc' = "handle_event_logs"
    /\ last_step' = Step("ExecutorsSubscribe", "ok")
    /\ UNCHANGED << starting_block, events_listener_active, enclave_registered,
                    last_block_seen, job_requests_running, jobs_from,
                    tasks, spawned, ever_inserted, settled >>

\* ----------------------------------------------------- handle_event_logs
\* A faulty variant: the supervisor returns whenever handle_event_logs has returned
AfterHandleEventLogsReturn(registered) == "stopped"

\* What the supervisor does when handle_event_logs has returned: it returns
\* itself (and the deferred block clears events_listener_active) when the
\* enclave is no longer registered, else it loops to connect again.
AfterHandleEventLogs(registered) == IF ~registered THEN "stopped" ELSE "connect"

\* A faulty variant: the flag is left as it is when the listener returns
DeferNotRun(to, active) == active

\* defer!: whenever events_listener returns, events_listener_active is cleared.
Deferred(to, active) == IF to = "stopped" THEN FALSE ELSE active

\* handle_event_logs has returned and the supervisor goes to `to`: the two
\* streams of this connection are dropped; when the supervisor returns, its
\* argument is gone and the deferred block clears events_listener_active.
Leave(to) ==
    /\ pc' = to
    /\ UNCHANGED conn
    /\ jobs_from' = None
    /\ executors_from' = None
    /\ jobs_ended' = FALSE
    /\ executors_ended' = FALSE
    /\ starting_block' = IF to = "stopped" THEN 0 ELSE starting_block
    /\ events_listener_active' = Deferred(to, events_listener_active)

\* A faulty variant: the flag is not cleared
DeregisteredKept(registered) == registered

\* enclave_registered.store(false)
Deregistered(registered) == FALSE

\* A faulty variant: the deregistration arm is polled only once jobs_stream
\* is exhausted
ExecutorsArmPolledLast(jobs_done) == jobs_done

\* select! without `biased;`: the arm of executors_stream is polled in every
\* round of the loop, whatever jobs_stream has ready.
ExecutorsArmPolled(jobs_done) == TRUE

\* One log of executors_stream: skipped when removed, else the enclave is
\* deregistered and handle_event_logs returns, which drops its sender.
ExecutorsLog(event) ==
    /\ pc = "handle_event_logs"
    /\ ~executors_ended
    /\ ExecutorsArmPolled(jobs_ended)
    /\ Delivered(event, executors_from)
    /\ IF Removed(event)
       THEN /\ last_step' = Step("ExecutorsLog", "removed")
            /\ UNCHANGED << pc, enclave_registered, events_listener_active,
                            starting_block, conn, jobs_from, executors_from,
                            jobs_ended, executors_ended >>
       ELSE /\ enclave_registered' = Deregistered(enclave_registered)
            /\ Leave(AfterHandleEventLogs(Deregistered(enclave_registered)))
            /\ last_step' = Step("ExecutorsLog", "deregistered")
    /\ UNCHANGED << last_block_seen, job_requests_running, channel, tasks, spawned,
                    ever_inserted, settled >>
    /\ UNCHANGED sender_vars

\* A faulty variant: the block at the cursor is stale too
StaleOrEqual(current_block, cursor) == current_block <= cursor

\* The replay guard: a block before the cursor is stale.
Stale(current_block, cursor) == current_block < cursor

\* The log passes the removed check, has a block number and is not stale.
Accepted(event, cursor) ==
    /\ ~Removed(event)
    /\ IsSome(event.block_number)
    /\ ~Stale(Unwrap(event.block_number), cursor)

\* A faulty variant: only the ABI decode is checked, not the fields taken from it
DecodedAbiOnly(event) == event.decode # "abi"

\* The decoding of the log's data and of every field read from it succeeds.
Decoded(event) == event.decode = "ok"

\* A faulty variant: only the first selected executor is compared
IsFirstNodeSelected(selected) == Len(selected) > 0 /\ selected[1] = "self"

\* selected_nodes ... filter(is_some).any(== enclave_address)
IsNodeSelected(selected) ==
    \E i \in 1 .. Len(selected) : selected[i] # "bad" /\ selected[i] = "self"

\* A faulty variant: the quorum is a lower bound
QuorumAtLeast(output_count) == output_count >= NumSelectedExecutors

\* output_count == num_selected_executors
QuorumReached(output_count) == output_count = NumSelectedExecutors

\* A faulty variant: an id already present is dropped
HashSetToggle(set, job_id) ==
    IF job_id \in set THEN set \ {job_id} ELSE set \cup {job_id}

HashSetInsert(set, job_id) == set \cup {job_id}
HashSetRemove(set, job_id) == set \ {job_id}

\* A faulty variant: tasks are spawned only for an id that was not in the set
SpawnsIfInserted(inserted) == inserted

\* Whether tasks are spawned, given what insert has returned: the value is
\* dropped and the tasks are spawned either way.
Spawns(inserted) == TRUE

\* The tasks a decoded JobCreated log spawns on connection c.
SpawnedBy(event, c) ==
    SetToBag({Task(c, "timeout", event.job_id)})
      (+) (IF IsNodeSelected(event.selected)
           THEN SetToBag({Task(c, "job", event.job_id)})
           ELSE EmptyBag)

\* How the dispatch loop disposes of a log of jobs_stream (a JobCreated log
\* for an id already in the set is told apart: insert returns false for it).
Outcome(event, cursor, running) ==
    IF Removed(event) THEN "removed"
    ELSE IF event.block_number = None THEN "no_block"
    ELSE IF Stale(Unwrap(event.block_number), cursor) THEN "stale"
    ELSE IF ~Decoded(event) THEN "decode_failed"
    ELSE IF event.topic0 = "JobCreated"
         THEN IF event.job_id \in running THEN "job_created_again" ELSE "job_created"
    ELSE IF QuorumReached(event.output_count) THEN "job_responded_quorum"
    ELSE "job_responded"

\* One log of jobs_stream, through the whole arm of the select.
JobsLog(event) ==
    /\ pc = "handle_event_logs"
    /\ ~jobs_ended
    /\ Delivered(event, jobs_from)
    /\ LET outcome == Outcome(event, last_block_seen, job_requests_running)
           created == Accepted(event, last_block_seen) /\ Decoded(event)
                        /\ event.topic0 = "JobCreated"
           responded == Accepted(event, last_block_seen) /\ Decoded(event)
                          /\ event.topic0 = "JobResponded"
           new_tasks == IF created /\ Spawns(event.job_id \notin job_requests_running)
                        THEN SpawnedBy(event, conn) ELSE EmptyBag
       IN  /\ last_step' = Step("JobsLog", outcome)
           /\ spawned + BagCardinality(new_tasks) <= MaxSpawn
           /\ last_block_seen' =
                 IF Accepted(event, last_block_seen)
                 THEN Unwrap(event.block_number) ELSE last_block_seen
           /\ job_requests_running' =
                 IF created THEN HashSetInsert(job_requests_running, event.job_id)
                 ELSE IF responded /\ QuorumReached(event.output_count)
                 THEN HashSetRemove(job_requests_running, event.job_id)
                 ELSE job_requests_running
           /\ tasks' = tasks (+) new_tasks
           /\ spawned' = spawned + BagCardinality(new_tasks)
           /\ ever_inserted' = IF created THEN ever_inserted \cup {event.job_id}
                               ELSE ever_inserted
           /\ settled' = IF responded /\ QuorumReached(event.output_count)
                              /\ event.job_id \in job_requests_running
                           THEN settled \cup {event.job_id} ELSE settled
    /\ UNCHANGED << pc, starting_block, events_listener_active, enclave_registered,
                    jobs_from, executors_from, jobs_ended,
                    executors_ended, conn, channel >>
    /\ UNCHANGED sender_vars

\* jobs_stream.next() yields None: that arm of the select is disabled.
JobsStreamEnds ==
    /\ pc = "handle_event_logs"
    /\ ~jobs_ended
    /\ jobs_ended' = TRUE
    /\ last_step' = Step("JobsStream", "ended")
    /\ UNCHANGED << pc, starting_block, events_listener_active, enclave_registered,
                    last_block_seen, job_requests_running, jobs_from,
                    executors_from, executors_ended, conn, channel, tasks, spawned,
                    ever_inserted, settled >>
    /\ UNCHANGED sender_vars

\* executors_stream.next() yields None: that arm of the select is disabled.
ExecutorsStreamEnds ==
    /\ pc = "handle_event_logs"
    /\ ~executors_ended
    /\ executors_ended' = TRUE
    /\ last_step' = Step("ExecutorsStream", "ended")
    /\ UNCHANGED << pc, starting_block, events_listener_active, enclave_registered,
                    last_block_seen, job_requests_running, jobs_from,
                    executors_from, jobs_ended, conn, channel, tasks, spawned,
                    ever_inserted, settled >>
    /\ UNCHANGED sender_vars

\* A faulty variant: the loop is left as soon as one stream has ended
SelectElseEither(jobs_done, executors_done) == jobs_done \/ executors_done

\* select!'s else arm runs when the pattern of every arm has failed.
SelectElse(jobs_done, executors_done) == jobs_done /\ executors_done

\* `else => break`: both arms are disabled; handle_event_logs returns, which
\* drops its sender, and the supervisor checks the registration.
BothStreamsEnded ==
    /\ pc = "handle_event_logs"
    /\ SelectElse(jobs_ended, executors_ended)
    /\ Leave(AfterHandleEventLogs(enclave_registered))
    /\ last_step' = Step("HandleEventLogs", "both_streams_ended")
    /\ UNCHANGED << enclave_registered, last_block_seen, job_requests_running,
                    channel, tasks, spawned, ever_inserted, settled >>
    /\ UNCHANGED sender_vars

\* ------------------------------------------- handle_timeout / handle_job
\* The message a task sends on its sender clone.
MessageOf(t) ==
    IF t.kind = "timeout" THEN TimeoutMessage(t.job_id) ELSE OutputMessage(t.job_id)

\* A task sends its one message and ends, dropping its sender clone.
TaskSends(t) ==
    /\ BagIn(t, tasks)
    /\ Len(channel[t.conn]) < ChannelCapacity
    /\ channel' = [channel EXCEPT ![t.conn] = Append(@, MessageOf(t))]
    /\ tasks' = tasks (-) SetToBag({t})
    /\ UNCHANGED listener_vars
    /\ UNCHANGED << sender, spawned, last_step >>

\* A task ends without sending anything, dropping its sender clone.
TaskEnds(t) ==
    /\ BagIn(t, tasks)
    /\ tasks' = tasks (-) SetToBag({t})
    /\ UNCHANGED listener_vars
    /\ UNCHANGED << channel, sender, spawned, last_step >>

\* ------------------------------------------------- send_execution_output
\* A faulty variant: only the timeout response is looked at
TxnForTimeoutOnly(job_response) ==
    IF IsSome(job_response.timeout_response)
    THEN [txn |-> "slash_on_execution_timeout",
          job_id |-> Unwrap(job_response.timeout_response)]
    ELSE [txn |-> "none", job_id |-> 0]

\* The transaction send_execution_output builds for a message: submit_output
\* when the message has a job output, else slash_on_execution_timeout when it
\* has a timeout response, else none.
TxnFor(job_response) ==
    IF IsSome(job_response.job_output)
    THEN [txn |-> "submit_output", job_id |-> Unwrap(job_response.job_output)]
    ELSE IF IsSome(job_response.timeout_response)
    THEN [txn |-> "slash_on_execution_timeout",
          job_id |-> Unwrap(job_response.timeout_response)]
    ELSE [txn |-> "none", job_id |-> 0]

\* A faulty variant: send_execution_output returns on a failed send_txn
AfterTxnReturnOnError(ok) == IF ok THEN "recv" ELSE "stopped"

\* Where send_execution_output goes when send_txn has returned: in both
\* cases to the next rx.recv().
AfterTxn(ok) == "recv"

\* A faulty variant: the clones held by the per-job tasks are not counted
ClosedWhenLoopLeft(c) == ~(pc = "handle_event_logs" /\ conn = c)

\* No sender of channel c is left: handle_event_logs holds none and no task
\* spawned on c is running.
Closed(c) ==
    /\ ~(pc = "handle_event_logs" /\ conn = c)
    /\ \A t \in Tasks : t.conn = c => ~BagIn(t, tasks)

\* rx.recv() yields a message; its transaction is built and send_txn started.
Recv(c) ==
    /\ sender[c].at = "recv"
    /\ channel[c] # << >>
    /\ LET call == TxnFor(Head(channel[c]))
       IN  /\ channel' = [channel EXCEPT ![c] = Tail(@)]
           /\ sender' = [sender EXCEPT ![c] =
                 IF call.txn = "none" THEN Sender("recv", "none", 0, @.failed)
                 ELSE Sender("send_txn", call.txn, call.job_id, @.failed)]
    /\ UNCHANGED listener_vars
    /\ UNCHANGED << tasks, spawned, last_step >>

\* send_txn returns, with success or with an error.
TxnResult(c, ok) ==
    /\ sender[c].at = "send_txn"
    /\ sender' = [sender EXCEPT ![c] =
          Sender(AfterTxn(ok), "none", 0, @.failed \/ ~ok)]
    /\ UNCHANGED listener_vars
    /\ UNCHANGED << channel, tasks, spawned, last_step >>

\* rx.recv() yields None: the channel is closed and empty; the task returns.
SenderStops(c) ==
    /\ sender[c].at = "recv"
    /\ channel[c] = << >>
    /\ Closed(c)
    /\ sender' = [sender EXCEPT ![c] = Sender("stopped", "none", 0, @.failed)]
    /\ UNCHANGED listener_vars
    /\ UNCHANGED << channel, tasks, spawned, last_step >>

\* ------------------------------------------------------------------ spec
Next ==
    \/ \E sb \in Blocks : StartListener(sb)
    \/ ConnectFails
    \/ ConnectSucceeds
    \/ \E ok \in BOOLEAN : RegisterSubscribe(ok)
    \/ \E event \in ExecutorLogs : RegisterLog(event)
    \/ RegisterStreamEnds
    \/ \E ok \in BOOLEAN : JobsSubscribe(ok)
    \/ ExecutorsSubscribeFails
    \/ ExecutorsSubscribeSucceeds
    \/ \E event \in ExecutorLogs : ExecutorsLog(event)
    \/ \E event \in JobLogs : JobsLog(event)
    \/ JobsStreamEnds
    \/ ExecutorsStreamEnds
    \/ BothStreamsEnded
    \/ \E t \in Tasks : TaskSends(t)
    \/ \E t \in Tasks : TaskEnds(t)
    \/ \E c \in Conns : Recv(c)
    \/ \E c \in Conns, ok \in BOOLEAN : TxnResult(c, ok)
    \/ \E c \in Conns : SenderStops(c)

Spec == Init /\ [][Next]_vars

\* The runtime keeps polling every spawned send_execution_output task, and a
\* send_txn it awaits returns.
SenderFairness ==
    \A c \in Conns :
       /\ WF_vars(Recv(c))
       /\ WF_vars(\E ok \in BOOLEAN : TxnResult(c, ok))
       /\ WF_vars(SenderStops(c))

FairSpec == Spec /\ SenderFairness

\* select! picks among its ready arms at random in every round of the loop:
\* a log that is not removed and stays ready on executors_stream is taken in
\* the end, however many logs jobs_stream has ready.
SelectFairness ==
    WF_vars(\E event \in ExecutorLogs : ~Removed(event) /\ ExecutorsLog(event))

SelectFairSpec == Spec /\ SelectFairness

\* ---------------------------------------------------------------- claims
\* What a log is, read off its fields alone.
MarkedRemoved(event) == event.removed = Some(TRUE)
\* Not removed, with a block number that is not before the cursor.
PassesGuards(event, cursor) ==
    /\ event.removed = Some(FALSE)
    /\ event.block_number # None
    /\ event.block_number[1] >= cursor
\* The logs of jobs_stream by what their fields say.
\* (each is written as a difference, which TLC enumerates once, where it
\* would filter a set { x \in S : P(x) } anew at every use)
RemovedJobLogs == JobLogs \ {event \in JobLogs : ~MarkedRemoved(event)}
RemovedExecutorLogs == ExecutorLogs \ {event \in ExecutorLogs : ~MarkedRemoved(event)}
LiveLogs ==
    JobLogs \ {event \in JobLogs : event.removed # Some(FALSE) \/ event.block_number = None}
CreatedLogs ==
    LiveLogs \ {event \in LiveLogs : event.topic0 # "JobCreated" \/ event.decode # "ok"}
RespondedLogs == LiveLogs \ {event \in LiveLogs : event.topic0 # "JobResponded"}
UndecodableLogs == LiveLogs \ {event \in LiveLogs : event.decode = "ok"}
\* A step JobsLog(event) records the outcome of event in last_step: the logs
\* a step can have processed are those of the recorded outcome.
Outcomes ==
    {"removed", "no_block", "stale", "decode_failed", "job_created",
     "job_created_again", "job_responded_quorum", "job_responded"}
\* (comparing the table with itself makes TLC enumerate it once, where it would
\* compute an entry anew at every use)
LogsOfOutcome ==
    LET table == [c \in Blocks |-> [r \in SUBSET JobIds |-> [o \in Outcomes |->
                    JobLogs \ {event \in JobLogs : Outcome(event, c, r) # o}]]]
    IN  IF table = table THEN table ELSE table
ProcessedLogs == LogsOfOutcome[last_block_seen][job_requests_running][last_step'.outcome]
NamesSelf(event) == \E i \in DOMAIN event.selected : event.selected[i] = "self"
Count(t) == CopiesIn(t, tasks)
CountAfter(t) == CopiesIn(t, tasks')
\* The send_execution_output tasks that are sending a transaction or have a
\* message to receive or a sender of their channel left to wait for.
SendersRunning ==
    {c \in Conns : \/ sender[c].at = "send_txn"
                   \/ sender[c].at = "recv" /\ ~(Closed(c) /\ channel[c] = << >>)}
SendersSending == {c \in Conns : sender[c].at = "send_txn"}

\* C1: the resume cursor last_block_seen never decreases, in any step of the
\* listener, the registration gate's store included, also in a listener
\* started again after a deregistration.
C1_CursorNeverDecreases == [][last_block_seen' >= last_block_seen]_vars

\* C2: at most one send_execution_output task is running and at most one
\* transaction submission is in flight, over all connections.
C2_SingleResponseDispatcher ==
    /\ Cardinality(SendersRunning) <= 1
    /\ Cardinality(SendersSending) <= 1

\* C3 as stated: at every point, an id that has been inserted is absent from
\* job_requests_running exactly if a JobResponded with outputCount =
\* num_selected_executors has been processed for it.
C3_AbsentIffQuorumObserved ==
    \A j \in ever_inserted : (j \notin job_requests_running) <=> (j \in settled)

\* C3 as amended: an id leaves job_requests_running only in the step that
\* processes a JobResponded log for that id with outputCount =
\* num_selected_executors, and that step leaves it absent; a JobResponded log
\* with another outputCount leaves the set unchanged; hence an inserted id that
\* is absent has had its quorum processed.
C3_RemovedOnlyAtQuorum ==
    [][ /\ \A j \in job_requests_running \ job_requests_running' :
              \E event \in RespondedLogs :
                 /\ event.job_id = j
                 /\ event.output_count = NumSelectedExecutors
                 /\ event.decode = "ok"
                 /\ PassesGuards(event, last_block_seen)
                 /\ JobsLog(event)
        /\ last_step'.act = "JobsLog" =>
           \A event \in ProcessedLogs :
              (event \in RespondedLogs /\ PassesGuards(event, last_block_seen))
              => \/ IF event.decode = "ok" /\ event.output_count = NumSelectedExecutors
                    THEN job_requests_running' = job_requests_running \ {event.job_id}
                    ELSE job_requests_running' = job_requests_running
                 \/ ~JobsLog(event)
        /\ \A j \in ever_inserted' : j \notin job_requests_running' => j \in settled'
      ]_vars

C3_Witness ==
    /\ last_step = Step("JobsLog", "job_responded_quorum")
    /\ \E j \in ever_inserted : j \notin job_requests_running /\ j \in settled

\* C4: a log marked removed, on jobs_stream or on executors_stream, changes
\* nothing: enclave_registered, last_block_seen, job_requests_running and the
\* tasks are as before and the dispatch loop goes on.
C4_RemovedLogChangesNothing ==
    [][ /\ last_step'.act = "JobsLog" =>
           \/ /\ UNCHANGED << enclave_registered, last_block_seen,
                               job_requests_running, tasks, spawned, channel, sender >>
              /\ pc' = "handle_event_logs"
           \/ \A event \in ProcessedLogs :
                 ~(event \in RemovedJobLogs /\ JobsLog(event))
        /\ last_step'.act = "ExecutorsLog" =>
           \A event \in RemovedExecutorLogs : ExecutorsLog(event)
              => /\ UNCHANGED << enclave_registered, last_block_seen,
                                 job_requests_running, tasks, spawned, channel, sender >>
                 /\ pc' = "handle_event_logs"
      ]_vars

C4_Witness ==
    /\ pc = "handle_event_logs"
    /\ last_step \in {Step("JobsLog", "removed"), Step("ExecutorsLog", "removed")}
    /\ job_requests_running # {}

\* C5: a processed JobCreated log spawns exactly one handle_timeout task, and
\* exactly one handle_job task if this node's address is among the selected
\* executors and none if not; its job id is in job_requests_running after it.
C5_TasksSpawnedPerJobCreated ==
    [][ last_step'.act = "JobsLog" =>
        \A event \in ProcessedLogs :
           (/\ event \in CreatedLogs
            /\ PassesGuards(event, last_block_seen)
            /\ JobsLog(event))
           => /\ event.job_id \in job_requests_running'
              /\ \A t \in Tasks :
                    CountAfter(t) - Count(t) =
                       IF t.conn = conn /\ t.job_id = event.job_id
                            /\ (t.kind = "timeout" \/ NamesSelf(event))
                       THEN 1 ELSE 0
      ]_vars

C5_Witness ==
    /\ last_step.act = "JobsLog"
    /\ last_step.outcome \in {"job_created", "job_created_again"}
    /\ \E j \in job_requests_running :
          /\ Count(Task(conn, "timeout", j)) = 1
          /\ Count(Task(conn, "job", j)) = 1

\* C6: a processed JobCreated log for an id that is already in
\* job_requests_running leaves the set as it was.
C6_ReplayedJobCreatedKeepsSet ==
    [][ last_step'.act = "JobsLog" =>
        \A event \in ProcessedLogs :
           (/\ event \in CreatedLogs
            /\ PassesGuards(event, last_block_seen)
            /\ event.job_id \in job_requests_running)
           => \/ job_requests_running' = job_requests_running
              \/ ~JobsLog(event)
      ]_vars

C6_Witness ==
    /\ last_step = Step("JobsLog", "job_created_again")
    /\ job_requests_running # {}

\* C7: a log that is not removed and not stale but fails to decode, at the ABI
\* decode or at a field, leaves job_requests_running and the tasks as they
\* were, the cursor at the log's block number and the dispatch loop running.
C7_DecodeFailureSkipsEvent ==
    [][ last_step'.act = "JobsLog" =>
        \A event \in ProcessedLogs :
           (event \in UndecodableLogs /\ PassesGuards(event, last_block_seen))
           => \/ /\ last_block_seen' = event.block_number[1]
                 /\ UNCHANGED << job_requests_running, tasks, spawned, channel, sender >>
                 /\ pc' = "handle_event_logs"
              \/ ~JobsLog(event)
      ]_vars

C7_Witness ==
    /\ pc = "handle_event_logs"
    /\ last_step = Step("JobsLog", "decode_failed")
    /\ jobs_from # None
    /\ last_block_seen > Unwrap(jobs_from)

\* C8: for a message it receives, send_execution_output starts exactly one
\* transaction, of the message's kind and job id: slash_on_execution_timeout
\* for a timeout message, submit_output for an output message; no other
\* sender starts one in that step and none starts one in any other step.
C8_OneTransactionPerMessage ==
    [][ \A c \in Conns :
           /\ Recv(c) =>
                 LET m == Head(channel[c])
                 IN  /\ (m.job_output = None /\ IsSome(m.timeout_response))
                           => sender'[c] = Sender("send_txn", "slash_on_execution_timeout",
                                                  Unwrap(m.timeout_response), sender[c].failed)
                     /\ (IsSome(m.job_output) /\ m.timeout_response = None)
                           => sender'[c] = Sender("send_txn", "submit_output",
                                                  Unwrap(m.job_output), sender[c].failed)
                     /\ \A d \in Conns \ {c} : sender'[d] = sender[d]
           /\ (sender'[c].at = "send_txn" /\ sender'[c] # sender[c])
                 => channel[c] # << >> /\ channel'[c] = Tail(channel[c])
      ]_vars

C8_Witness ==
    \E c \in Conns :
       /\ sender[c].at = "send_txn"
       /\ sender[c].txn = "slash_on_execution_timeout"
       /\ sender[c].job_id \in JobIds

\* C9: a failed send_txn leaves send_execution_output running: it is at its
\* next rx.recv() with the queue as it was, and a queued message is received.
C9_FailedTransactionDoesNotStop ==
    [][ \A c \in Conns :
           /\ TxnResult(c, FALSE)
                 => /\ sender'[c].at = "recv"
                    /\ channel' = channel
           /\ (sender[c].failed /\ sender[c].at = "recv" /\ channel[c] # << >>)
                 => ENABLED Recv(c)
           /\ (sender[c].failed /\ sender[c].at # "stopped" /\ sender'[c].at = "stopped")
                 => channel[c] = << >> /\ Closed(c)
      ]_vars

C9_Witness ==
    \E c \in Conns : sender[c].failed /\ sender[c].at = "send_txn"

\* C10: events_listener returns only out of handle_event_logs with the enclave
\* deregistered; a failed connect, a failed subscription, the end of the
\* registration stream and the end of both streams lead to another connect.
C10_ReturnsOnlyOnDeregistration ==
    [][ /\ (pc # "stopped" /\ pc' = "stopped")
              => /\ pc = "handle_event_logs"
                 /\ enclave_registered /\ ~enclave_registered'
        /\ ( \/ ConnectFails
             \/ RegisterSubscribe(FALSE)
             \/ RegisterStreamEnds
             \/ JobsSubscribe(FALSE)
             \/ ExecutorsSubscribeFails
             \/ BothStreamsEnded )
              => pc' = "connect"
      ]_vars

C10_Witness ==
    /\ pc = "stopped"
    /\ last_step = Step("ExecutorsLog", "deregistered")
    /\ ~enclave_registered

\* C11: whenever events_listener is not running (it has returned, by whatever
\* path, or was never started), events_listener_active is false.
C11_ExitClearsListenerActive == pc = "stopped" => ~events_listener_active

C11_Witness ==
    /\ pc = "stopped"
    /\ conn > 0
    /\ ~events_listener_active
    /\ last_step.act \in {"ExecutorsLog", "HandleEventLogs"}

\* C12: the registration gate runs only while enclave_registered is false; a
\* log of register_stream that is removed (or carries no marker) is skipped;
\* the first log that is not removed sets enclave_registered, stores the log's
\* block number in last_block_seen (starting_block if the log has none) and
\* leaves the gate; when register_stream ends in the gate, enclave_registered
\* is false, last_block_seen is unchanged and the supervisor connects again.
C12_RegistrationGate ==
    [][ /\ pc' \in {"register_subscribe", "register_stream"} => ~enclave_registered'
        /\ last_step'.act = "RegisterLog" =>
              \A event \in ExecutorLogs : RegisterLog(event) =>
                 IF event.removed = Some(FALSE)
                 THEN /\ enclave_registered'
                      /\ pc' = "jobs_subscribe"
                      /\ last_block_seen' =
                            IF event.block_number = None THEN starting_block
                            ELSE event.block_number[1]
                 ELSE /\ UNCHANGED << enclave_registered, last_block_seen >>
                      /\ pc' = "register_stream"
        /\ RegisterStreamEnds =>
              /\ ~enclave_registered'
              /\ last_block_seen' = last_block_seen
              /\ pc' = "connect"
      ]_vars

C12_Witness ==
    /\ last_step = Step("RegisterLog", "registered")
    /\ pc = "jobs_subscribe"
    /\ enclave_registered
    /\ last_block_seen = MaxBlock

\* C13: a log of executors_stream that is not removed clears
\* enclave_registered and makes handle_event_logs and events_listener return in
\* that step, with last_block_seen, job_requests_running and the tasks as they
\* were; while the listener is not running no log of jobs_stream is processed:
\* last_block_seen and job_requests_running do not change and no task is
\* spawned.
C13_DeregistrationEndsDispatch ==
    [][ /\ last_step'.act = "ExecutorsLog" =>
              \A event \in ExecutorLogs :
                 (event.removed = Some(FALSE) /\ ExecutorsLog(event)) =>
                    /\ ~enclave_registered'
                    /\ pc' = "stopped"
                    /\ UNCHANGED << last_block_seen, job_requests_running, tasks,
                                    spawned >>
        /\ pc = "stopped" =>
              /\ last_step'.act # "JobsLog"
              /\ UNCHANGED << last_block_seen, job_requests_running, spawned >>
              /\ \A t \in Tasks : CountAfter(t) <= Count(t)
      ]_vars

C13_Witness ==
    /\ pc = "stopped"
    /\ last_step = Step("ExecutorsLog", "deregistered")
    /\ ~enclave_registered
    /\ job_requests_running # {}
    /\ tasks # EmptyBag

\* C14: enclave_registered starts false; it becomes true only in a step of
\* the registration gate on a log that is not removed, and false only in a
\* step of handle_event_logs on a log of executors_stream that is not removed;
\* every other step leaves it as it is, and a connection made while it is true
\* goes past the gate to the jobs subscription.
C14_RegisteredFlagTransitions ==
    /\ ~enclave_registered
    /\ [][ /\ (~enclave_registered /\ enclave_registered') =>
                 /\ pc = "register_stream"
                 /\ \E event \in ExecutorLogs :
                       event.removed = Some(FALSE) /\ RegisterLog(event)
           /\ (enclave_registered /\ ~enclave_registered') =>
                 /\ pc = "handle_event_logs"
                 /\ \E event \in ExecutorLogs :
                       event.removed = Some(FALSE) /\ ExecutorsLog(event)
           /\ last_step'.act \notin {"RegisterLog", "ExecutorsLog"} =>
                 enclave_registered' = enclave_registered
           /\ (ConnectSucceeds /\ enclave_registered) => pc' = "jobs_subscribe"
         ]_vars

C14_Witness ==
    /\ enclave_registered
    /\ conn = MaxConn
    /\ pc = "handle_event_logs"
    /\ last_step = Step("ExecutorsSubscribe", "ok")

\* C15: a log of jobs_stream that is not removed is dropped with nothing
\* changed if it has no block number or a block number below last_block_seen;
\* any other, also one at last_block_seen itself, is processed: after it
\* last_block_seen is the log's block number, a decoded JobCreated has its id
\* in job_requests_running and a decoded JobResponded at quorum has not.
C15_ReplayGuard ==
    [][ last_step'.act = "JobsLog" =>
        /\ \/ UNCHANGED << pc, enclave_registered, last_block_seen,
                            job_requests_running, tasks, spawned, channel, sender >>
           \/ \A event \in ProcessedLogs :
                 \/ event.removed # Some(FALSE)
                 \/ event.block_number # None
                       /\ event.block_number[1] >= last_block_seen
                 \/ ~JobsLog(event)
        /\ \A event \in ProcessedLogs :
              \/ event.removed # Some(FALSE)
              \/ event.block_number = None
              \/ event.block_number[1] < last_block_seen
              \/ /\ last_block_seen' = event.block_number[1]
                 /\ (event.topic0 = "JobCreated" /\ event.decode = "ok")
                      => event.job_id \in job_requests_running'
                 /\ (event.topic0 = "JobResponded" /\ event.decode = "ok"
                       /\ event.output_count = NumSelectedExecutors)
                      => event.job_id \notin job_requests_running'
              \/ ~JobsLog(event)
      ]_vars

C15_Witness ==
    /\ pc = "handle_event_logs"
    /\ last_step = Step("JobsLog", "stale")
    /\ jobs_from # None
    /\ last_block_seen > Unwrap(jobs_from)
    /\ job_requests_running # {}

\* C16: handle_event_logs can end as "both streams ended" only when
\* jobs_stream and executors_stream have both ended; while only one has ended
\* it is still in its loop and every log the other stream delivers is
\* processed (a JobCreated log as far as the bound on spawned tasks allows).
C16_BreaksOnlyWhenBothEnded ==
    /\ ENABLED BothStreamsEnded => (jobs_ended /\ executors_ended)
    /\ (pc = "handle_event_logs" /\ jobs_ended /\ ~executors_ended) =>
          \A event \in ExecutorLogs :
             Delivered(event, executors_from) => ENABLED ExecutorsLog(event)
    /\ (pc = "handle_event_logs" /\ executors_ended /\ ~jobs_ended) =>
          \A event \in JobLogs :
             (/\ Delivered(event, jobs_from)
              /\ event.topic0 = "JobCreated" => spawned + 2 <= MaxSpawn)
             => ENABLED JobsLog(event)

C16_Witness ==
    /\ pc = "handle_event_logs"
    /\ executors_ended /\ ~jobs_ended
    /\ last_step = Step("JobsLog", "job_created")
    /\ job_requests_running # {}

\* C17: send_execution_output returns only when its channel is empty and no
\* sender of it is left (handle_event_logs has returned or moved on and every
\* task spawned on that connection has ended); under the fairness of
\* FairSpec, a message in a channel is eventually received and its transaction
\* sent, whatever the listener does meanwhile, and a send_execution_output
\* whose channel is closed and empty eventually returns.
NoSenderLeft(c) ==
    /\ ~(pc = "handle_event_logs" /\ conn = c)
    /\ \A t \in Tasks : t.conn = c => Count(t) = 0
C17_DispatcherOutlivesListener ==
    /\ [][ \A c \in Conns :
              (sender[c].at # "stopped" /\ sender'[c].at = "stopped")
                 => channel[c] = << >> /\ NoSenderLeft(c) ]_vars
    /\ \A c \in Conns, j \in JobIds :
          /\ (\E i \in DOMAIN channel[c] : channel[c][i] = TimeoutMessage(j))
                ~> (sender[c] \in {Sender("send_txn", "slash_on_execution_timeout", j, f) :
                                     f \in BOOLEAN})
          /\ (\E i \in DOMAIN channel[c] : channel[c][i] = OutputMessage(j))
                ~> (sender[c] \in {Sender("send_txn", "submit_output", j, f) :
                                     f \in BOOLEAN})
    /\ \A c \in Conns :
          (sender[c].at \in {"recv", "send_txn"} /\ channel[c] = << >>
             /\ NoSenderLeft(c))
            ~> (sender[c].at = "stopped")

C17_Witness ==
    /\ pc = "stopped"
    /\ \E c \in Conns :
          /\ sender[c].at = "send_txn"
          /\ \E t \in Tasks : t.conn = c /\ Count(t) > 0

\* C18: each successful subscription of the jobs filter and of the
\* deregistration filter starts at the value last_block_seen has then, and
\* while handle_event_logs runs every log with a block number at or above
\* last_block_seen is one that both filters deliver.
C18_FiltersStartAtCursor ==
    [][ /\ JobsSubscribe(TRUE) => jobs_from' = Some(last_block_seen)
        /\ ExecutorsSubscribeSucceeds =>
              /\ executors_from' = Some(last_block_seen)
              /\ jobs_from' = Some(last_block_seen)
        /\ pc' = "handle_event_logs" =>
              \A event \in ExecutorLogs :
                 (event.block_number # None
                    /\ event.block_number[1] >= last_block_seen')
                 => /\ Delivered(event, jobs_from')
                    /\ Delivered(event, executors_from')
      ]_vars

C18_Witness ==
    /\ pc = "handle_event_logs"
    /\ conn = MaxConn
    /\ last_step = Step("ExecutorsSubscribe", "ok")
    /\ last_block_seen = MaxBlock
    /\ jobs_from = Some(MaxBlock)
    /\ executors_from = Some(MaxBlock)

\* C19: whenever the registration gate has subscribed, the lower bound of
\* its filter is the value of last_block_seen.
C19_RegisterFilterStartsAtCursor ==
    pc = "register_stream" => RegisterFilterFrom = Some(last_block_seen)

DeregistrationReady ==
    /\ pc = "handle_event_logs"
    /\ ~executors_ended
    /\ \E event \in ExecutorLogs :
          ~Removed(event) /\ Delivered(event, executors_from)
ListenerTerminated ==
    /\ pc = "stopped"
    /\ ~enclave_registered
    /\ ~events_listener_active
C21_DeregistrationIsEventuallyTaken ==
    /\ [][ (DeregistrationReady /\ last_step'.act \in {"JobsLog", "JobsStream"})
              => (DeregistrationReady'
                    /\ ENABLED (\E event \in ExecutorLogs :
                                   ~Removed(event) /\ ExecutorsLog(event))) ]_vars
    /\ DeregistrationReady ~> (ListenerTerminated \/ executors_ended)

C21_Witness ==
    /\ ListenerTerminated
    /\ last_step = Step("ExecutorsLog", "deregistered")
    /\ spawned = MaxSpawn
    /\ settled # {}

====
